---- MODULE Spec2Model ----
(***************************************************************************)
(* State machine of src/src/App.tsx: the App component's three state       *)
(* cells (certificates, selectedFile, isProcessing), its three handlers    *)
(* (handleFileUpload, simulateUnrevoke, handleDownload) and the timers     *)
(* they schedule.  The handlers are modelled as operations that can be     *)
(* invoked at any time with any argument; the affordances of the rendered  *)
(* page (the disabled attributes of the two buttons) are the predicates    *)
(* RunTriggerDisabled and DownloadDisabled.                                *)
(*                                                                         *)
(* Timers follow the ordering rule of setTimeout: a timer does not fire    *)
(* before a timer that was set earlier with an equal or shorter delay.     *)
(*                                                                         *)
(* Strings whose content the code inspects (file names) are sequences of   *)
(* one-character strings, so that endsWith and replace are computed.       *)
(***************************************************************************)
EXTENDS Integers, Sequences, FiniteSets, TLC

\* ---------------------------------------------------------------- bounds
\* runs that may be started in one behaviour
MaxRuns == 2
\* exports whose release timer is pending at one time
MaxDownloads == 2
\* last reading of the clock (Date.now()) that is explored
MaxNow == 2

\* ------------------------------------------------------- program constants
\* steps.length, the number of awaited delays of one run
NumSteps == 5
\* setTimeout(resolve, 1000)
StageDelay == 1000
\* setTimeout(..., 100) of handleDownload
ReleaseDelay == 100
\* 30 days, the offset of issueDate, in days
IssueOffsetDays == 30
\* 365 days, the offset of expiryDate, in days
ExpiryOffsetDays == 365
\* 24 * 60 * 60 * 1000 readings of the clock make one day
ReadingsPerDay == 24 * 60 * 60 * 1000

\* ---------------------------------------------------------------- strings
\* '.p12'
P12 == <<".", "p", "1", "2">>

\* 'com.example.app'
BundleId == "com.example.app"

\* String.prototype.includes in place of endsWith
endsWith_includes(s, suf) ==
    \E k \in 1..(Len(s) - Len(suf) + 1) : SubSeq(s, k, k + Len(suf) - 1) = suf

\* String.prototype.endsWith: the last Len(suf) characters of s are suf
endsWith(s, suf) ==
    /\ Len(s) >= Len(suf)
    /\ SubSeq(s, Len(s) - Len(suf) + 1, Len(s)) = suf

\* String.prototype.indexOf, 1-based; 0 when pat does not occur in s
indexOf(s, pat) ==
    LET hits == {k \in 1..(Len(s) - Len(pat) + 1) :
                    SubSeq(s, k, k + Len(pat) - 1) = pat}
    IN  IF hits = {} THEN 0
        ELSE CHOOSE k \in hits : \A j \in hits : k <= j

\* String.prototype.replace with a string pattern: only the first
\* occurrence of pat is replaced
replace(s, pat, rep) ==
    LET k == indexOf(s, pat)
    IN  IF k = 0 THEN s
        ELSE SubSeq(s, 1, k - 1) \o rep \o SubSeq(s, k + Len(pat), Len(s))

\* ------------------------------------------------------------------ files
\* a File object: its name and the identity of its bytes
File(n, b) == [kind |-> "File", name |-> n, bytes |-> b]

\* null / undefined where a File is expected
NoFile == [kind |-> "absent", name |-> <<>>, bytes |-> 0]

\* a value that is present but is not a Blob
NotBlob == [kind |-> "Object", name |-> <<>>, bytes |-> 0]

\* a truthiness test in place of instanceof
IsBlob_anyObject(f) == f.kind # "absent"

\* file instanceof Blob
IsBlob(f) == f.kind = "File"

\* "a.p12"
NameA == <<"a", ".", "p", "1", "2">>
\* ".p12a.p12": '.p12' occurs before the extension as well
NameDup == <<".", "p", "1", "2", "a", ".", "p", "1", "2">>
\* "a.P12"
NameUpper == <<"a", ".", "P", "1", "2">>
\* "a.p12b"
NameInfix == <<"a", ".", "p", "1", "2", "b">>

\* fileInput.value: '' or the path the browser shows for a chosen file
InputValue(file) == IF file = NoFile THEN "" ELSE "C:/fakepath"

\* the files the user may put into the file input
Candidates ==
    { File(NameA, 1), File(NameDup, 2),
      File(NameUpper, 3), File(NameInfix, 4) }

\* event.target.files?.[0]
FirstFile == Candidates \cup {NoFile}

\* ----------------------------------------------------------- notifications
NoToast == [title |-> "", description |-> <<>>, variant |-> "none"]

ToastUploaded(f) ==
    [title |-> "Certificate uploaded", description |-> f.name,
     variant |-> "default"]

ToastInvalidFormat ==
    [title |-> "Invalid file format", description |-> <<>>,
     variant |-> "destructive"]

ToastMissingFile ==
    [title |-> "Missing file", description |-> <<>>,
     variant |-> "destructive"]

ToastSuccess ==
    [title |-> "Success!", description |-> <<>>, variant |-> "default"]

ToastDownloadFailed ==
    [title |-> "Download failed", description |-> <<>>,
     variant |-> "destructive"]

\* ------------------------------------------------------------------ state
VARIABLES
    certificates,   \* useState<CertificateInfo[]>: the record list
    selectedFile,   \* useState<File | null>
    isProcessing,   \* useState(false)
    inputValue,     \* value of the <input type="file"> element: empty or
                    \* the path of the chosen file
    runs,           \* suspended simulateUnrevoke calls: id, captured file, i,
                    \* clock reading before the call
    timers,         \* pending setTimeout timers, in the order they were set
    started,        \* number of runs started so far (gives runs their id)
    now,            \* the latest reading of Date.now()
    toast,          \* the notification emitted by the latest handler step
    urls,           \* live object URLs: id and the blob it refers to
    anchors,        \* <a> elements in document.body, each awaiting its
                    \* release timer
    saved,          \* the save triggered by the latest handler step
    completed       \* history: one entry per completed run, oldest first

vars == <<certificates, selectedFile, isProcessing, inputValue, runs, timers,
          started, now, toast, urls, anchors, saved, completed>>

NoSave == [name |-> <<>>, bytes |-> 0, href |-> 0]

Init ==
    /\ certificates = <<>>
    /\ selectedFile = NoFile
    /\ isProcessing = FALSE
    /\ inputValue = ""
    /\ runs = {}
    /\ timers = <<>>
    /\ started = 0
    /\ now = 0
    /\ toast = NoToast
    /\ urls = {}
    /\ anchors = {}
    /\ saved = NoSave
    /\ completed = <<>>

\* --------------------------------------------------------------- rendering
\* disabled={!selectedFile}
RunTriggerDisabled_fileOnly == selectedFile = NoFile

\* disabled={!selectedFile || isProcessing} of the run trigger
RunTriggerDisabled == selectedFile = NoFile \/ isProcessing

\* disabled={!cert.file} of a record's download button
DownloadDisabled(cert) == cert.file = NoFile

\* -------------------------------------------------------------- operations
\* if (file && file.name.endsWith('.p12'))
Accepts(file) == file # NoFile /\ endsWith(file.name, P12)

\* the else branch also resets the selection
handleFileUpload_clearOnReject(file) ==
    /\ inputValue' = InputValue(file)
    /\ IF Accepts(file)
       THEN /\ selectedFile' = file
            /\ toast' = ToastUploaded(file)
       ELSE /\ toast' = ToastInvalidFormat
            /\ selectedFile' = NoFile
    /\ saved' = NoSave
    /\ UNCHANGED <<certificates, isProcessing, runs, timers, started, now,
                   urls, anchors, completed>>

\* accepting a file also re-enables the form
handleFileUpload_resetBusy(file) ==
    /\ inputValue' = InputValue(file)
    /\ IF Accepts(file)
       THEN /\ selectedFile' = file
            /\ isProcessing' = FALSE
            /\ toast' = ToastUploaded(file)
       ELSE /\ toast' = ToastInvalidFormat
            /\ UNCHANGED <<selectedFile, isProcessing>>
    /\ saved' = NoSave
    /\ UNCHANGED <<certificates, runs, timers, started, now,
                   urls, anchors, completed>>

\* suspended calls read the latest selection instead of the one their
\* closure captured
handleFileUpload_retarget(file) ==
    /\ inputValue' = InputValue(file)
    /\ IF Accepts(file)
       THEN /\ selectedFile' = file
            /\ runs' = {[r EXCEPT !.file = file] : r \in runs}
            /\ toast' = ToastUploaded(file)
       ELSE /\ toast' = ToastInvalidFormat
            /\ UNCHANGED <<selectedFile, runs>>
    /\ saved' = NoSave
    /\ UNCHANGED <<certificates, isProcessing, timers, started, now,
                   urls, anchors, completed>>

handleFileUpload(file) ==
    /\ inputValue' = InputValue(file)
    /\ IF Accepts(file)
       THEN /\ selectedFile' = file
            /\ toast' = ToastUploaded(file)
       ELSE /\ toast' = ToastInvalidFormat
            /\ UNCHANGED selectedFile
    /\ saved' = NoSave
    /\ UNCHANGED <<certificates, isProcessing, runs, timers, started, now,
                   urls, anchors, completed>>

\* a pending timer: its delay and what its callback does, resume the run
\* with this id or release the object URL href (0: not this kind)
Timer(ms, run, href) == [ms |-> ms, run |-> run, href |-> href]

\* setTimeout: the new timer is the latest one set
setTimeout(ts, t) == Append(ts, t)

\* the timers without the k-th, which has fired
Fired(ts, k) == SubSeq(ts, 1, k - 1) \o SubSeq(ts, k + 1, Len(ts))

\* the k-th timer may fire: no timer set before it has a delay that is
\* equal or shorter
Ready(k) ==
    /\ k \in 1..Len(timers)
    /\ \A j \in 1..(k - 1) : timers[j].ms > timers[k].ms

\* the state of a call suspended at its await: the selectedFile its closure
\* captured, the loop index i whose delay is pending, and the latest clock
\* reading taken before the call began (its delays all lie after it)
Run(id, file, i, since) == [id |-> id, file |-> file, i |-> i, since |-> since]

\* setIsProcessing(true) moved above the missing-file check
simulateUnrevoke_busyFirst ==
    IF selectedFile = NoFile
    THEN /\ toast' = ToastMissingFile
         /\ isProcessing' = TRUE
         /\ saved' = NoSave
         /\ UNCHANGED <<certificates, selectedFile, inputValue,
                        runs, timers, started, now, urls, anchors,
                        completed>>
    ELSE /\ started < MaxRuns
         /\ now < MaxNow
         /\ isProcessing' = TRUE
         /\ started' = started + 1
         /\ runs' = runs \cup {Run(started + 1, selectedFile, 0, now)}
         /\ timers' = setTimeout(timers, Timer(StageDelay, started + 1, 0))
         /\ toast' = NoToast
         /\ saved' = NoSave
         /\ UNCHANGED <<certificates, selectedFile, inputValue, now, urls,
                        anchors, completed>>

simulateUnrevoke ==
    IF selectedFile = NoFile
    THEN /\ toast' = ToastMissingFile
         /\ saved' = NoSave
         /\ UNCHANGED <<certificates, selectedFile, isProcessing, inputValue,
                        runs, timers, started, now, urls, anchors,
                        completed>>
    ELSE /\ started < MaxRuns
         /\ now < MaxNow
         /\ isProcessing' = TRUE
         /\ started' = started + 1
         /\ runs' = runs \cup {Run(started + 1, selectedFile, 0, now)}
         /\ timers' = setTimeout(timers, Timer(StageDelay, started + 1, 0))
         /\ toast' = NoToast
         /\ saved' = NoSave
         /\ UNCHANGED <<certificates, selectedFile, inputValue, now, urls,
                        anchors, completed>>

\* the earliest reading Date.now() can give once the delays of run r have
\* elapsed: later than every reading taken before r began, not earlier than
\* the latest reading
Elapsed(r) == IF now = r.since THEN now + 1 ELSE now

\* the suspended call a stage timer resumes
RunOf(id) == CHOOSE r \in runs : r.id = id

\* the delay fires but its promise is not resolved: the call stays suspended
StageElapsed_unresolved(k) ==
    /\ Ready(k)
    /\ timers[k].run # 0
    /\ LET r == RunOf(timers[k].run)
       IN  /\ r.i + 1 < NumSteps
           /\ timers' = Fired(timers, k)
    /\ toast' = NoToast
    /\ saved' = NoSave
    /\ UNCHANGED <<certificates, selectedFile, isProcessing, inputValue,
                   runs, started, now, urls, anchors, completed>>

\* the delay of step i fires and a further step remains: the loop schedules
\* the next delay
StageElapsed(k) ==
    /\ Ready(k)
    /\ timers[k].run # 0
    /\ LET r == RunOf(timers[k].run)
       IN  /\ r.i + 1 < NumSteps
           /\ runs' = (runs \ {r}) \cup {Run(r.id, r.file, r.i + 1, r.since)}
           /\ timers' = setTimeout(Fired(timers, k),
                                   Timer(StageDelay, r.id, 0))
    /\ toast' = NoToast
    /\ saved' = NoSave
    /\ UNCHANGED <<certificates, selectedFile, isProcessing, inputValue,
                   started, now, urls, anchors, completed>>

\* Date.toLocaleDateString of the clock reading t shifted by d days
toLocaleDateString(t, d) == (t \div ReadingsPerDay) + d

\* const newCert: CertificateInfo = {...}
\* the record is built without the file property
newCert_noFile(file, t, type) ==
    [id |-> t, name |-> replace(file.name, P12, <<>>), status |-> "active",
     issueDate |-> toLocaleDateString(t, 0 - IssueOffsetDays),
     expiryDate |-> toLocaleDateString(t, ExpiryOffsetDays),
     bundleId |-> BundleId, type |-> type, file |-> NoFile]

newCert(file, t, type) ==
    [id        |-> t,
     name      |-> replace(file.name, P12, <<>>),
     status    |-> "active",
     issueDate |-> toLocaleDateString(t, 0 - IssueOffsetDays),
     expiryDate |-> toLocaleDateString(t, ExpiryOffsetDays),
     bundleId  |-> BundleId,
     type      |-> type,
     file      |-> file]

\* setCertificates([newCert])
setCertificates_replace(cert, prev) == <<cert>>

\* setCertificates(prev => [...prev, newCert])
setCertificates_append(cert, prev) == prev \o <<cert>>

\* setCertificates(prev => [newCert, ...prev])
setCertificates(cert, prev) == <<cert>> \o prev

\* the record is built from the selectedFile state of the latest render
\* instead of the one the call captured
Complete_latestSelection(k) ==
    /\ Ready(k)
    /\ timers[k].run # 0
    /\ LET r == RunOf(timers[k].run)
       IN  /\ r.i + 1 = NumSteps
           /\ \E t \in Elapsed(r)..MaxNow, type \in {"development", "distribution"} :
                LET cert == newCert(selectedFile, t, type)
                IN  /\ now' = t
                    /\ certificates' = setCertificates(cert, certificates)
                    /\ completed' = Append(completed,
                           [run |-> r.id, file |-> r.file, rec |-> cert])
           /\ runs' = runs \ {r}
    /\ timers' = Fired(timers, k)
    /\ toast' = ToastSuccess
    /\ selectedFile' = NoFile
    /\ inputValue' = ""
    /\ saved' = NoSave
    /\ UNCHANGED <<isProcessing, started, urls, anchors>>

\* the rest of simulateUnrevoke runs when any delay of the run fires
Complete_early(k) ==
    /\ Ready(k)
    /\ timers[k].run # 0
    /\ LET r == RunOf(timers[k].run)
       IN  /\ \E t \in Elapsed(r)..MaxNow, type \in {"development", "distribution"} :
                LET cert == newCert(r.file, t, type)
                IN  /\ now' = t
                    /\ certificates' = setCertificates(cert, certificates)
                    /\ completed' = Append(completed,
                           [run |-> r.id, file |-> r.file, rec |-> cert])
           /\ runs' = runs \ {r}
    /\ timers' = Fired(timers, k)
    /\ toast' = ToastSuccess
    /\ selectedFile' = NoFile
    /\ inputValue' = ""
    /\ saved' = NoSave
    /\ UNCHANGED <<isProcessing, started, urls, anchors>>

\* the delay of the last step fires: the loop ends and the rest of
\* simulateUnrevoke runs to its end
Complete(k) ==
    /\ Ready(k)
    /\ timers[k].run # 0
    /\ LET r == RunOf(timers[k].run)
       IN  /\ r.i + 1 = NumSteps
           /\ \E t \in Elapsed(r)..MaxNow, type \in {"development", "distribution"} :
                LET cert == newCert(r.file, t, type)
                IN  /\ now' = t
                    /\ certificates' = setCertificates(cert, certificates)
                    /\ completed' = Append(completed,
                           [run |-> r.id, file |-> r.file, rec |-> cert])
           /\ runs' = runs \ {r}
    /\ timers' = Fired(timers, k)
    /\ toast' = ToastSuccess
    /\ selectedFile' = NoFile
    /\ inputValue' = ""
    /\ saved' = NoSave
    /\ UNCHANGED <<isProcessing, started, urls, anchors>>

\* the blob an object URL refers to
Resolve(us, href) == (CHOOSE u \in us : u.id = href).blob

\* URL.createObjectURL: a URL no live object URL has, here the least
\* positive number not in use
createObjectURL(us) ==
    CHOOSE n \in 1..(Cardinality(us) + 1) :
        /\ \A u \in us : u.id # n
        /\ \A m \in 1..(n - 1) : \E u \in us : u.id = m

\* a.download = name.endsWith('.p12') ? name : name + '.p12'
downloadName(name) == IF endsWith(name, P12) THEN name ELSE name \o P12

handleDownload(file, name) ==
    IF file = NoFile \/ ~IsBlob(file)
    THEN /\ toast' = ToastDownloadFailed
         /\ saved' = NoSave
         /\ UNCHANGED <<certificates, selectedFile, isProcessing, inputValue,
                        runs, timers, started, now, urls, anchors,
                        completed>>
    ELSE /\ Cardinality(anchors) < MaxDownloads
         /\ LET url == createObjectURL(urls)
                a   == [href |-> url, download |-> downloadName(name)]
            IN  /\ urls' = urls \cup {[id |-> url, blob |-> file]}
                /\ anchors' = anchors \cup {a}
                /\ saved' = [name  |-> a.download,
                             bytes |-> Resolve(urls', a.href).bytes,
                             href  |-> a.href]
                /\ timers' = setTimeout(timers, Timer(ReleaseDelay, 0, url))
         /\ toast' = NoToast
         /\ UNCHANGED <<certificates, selectedFile, isProcessing, inputValue,
                        runs, started, now, completed>>

\* the timer removes the anchor but does not revoke the object URL
ReleaseTimer_keepUrl(k) ==
    /\ Ready(k)
    /\ timers[k].href # 0
    /\ anchors' = {a \in anchors : a.href # timers[k].href}
    /\ timers' = Fired(timers, k)
    /\ toast' = NoToast
    /\ saved' = NoSave
    /\ UNCHANGED <<certificates, selectedFile, isProcessing, inputValue,
                   runs, started, now, completed, urls>>

\* the 100 ms timer of a successful handleDownload fires
ReleaseTimer(k) ==
    /\ Ready(k)
    /\ timers[k].href # 0
    /\ anchors' = {a \in anchors : a.href # timers[k].href}
    /\ urls' = {u \in urls : u.id # timers[k].href}
    /\ timers' = Fired(timers, k)
    /\ toast' = NoToast
    /\ saved' = NoSave
    /\ UNCHANGED <<certificates, selectedFile, isProcessing, inputValue,
                   runs, started, now, completed>>

\* the arguments handleDownload is called with: a record's (file, name),
\* or no usable file at all
DownloadArgs ==
    {<<certificates[k].file, certificates[k].name>> :
        k \in 1..Len(certificates)}
    \cup {<<NoFile, <<"a">>>>, <<NotBlob, NameA>>}

Next ==
    \/ \E file \in FirstFile : handleFileUpload(file)
    \/ simulateUnrevoke
    \/ \E k \in 1..Len(timers) : StageElapsed(k)
    \/ \E k \in 1..Len(timers) : Complete(k)
    \/ \E args \in DownloadArgs : handleDownload(args[1], args[2])
    \/ \E k \in 1..Len(timers) : ReleaseTimer(k)

Spec == Init /\ [][Next]_vars

\* a pending delay of a run fires
StageTimerFires == \E k \in 1..Len(timers) : StageElapsed(k) \/ Complete(k)

\* a pending release timer fires
ReleaseTimerFires == \E k \in 1..Len(timers) : ReleaseTimer(k)

\* the behaviours in which timers that may fire eventually do
FairSpec ==
    /\ Spec
    /\ WF_vars(StageTimerFires)
    /\ WF_vars(ReleaseTimerFires)

\* ------------------------------------------------------------- properties
\* name n is some prefix followed by ".p12"
HasP12Suffix(n) == \E k \in 0..Len(n) : n = SubSeq(n, 1, k) \o P12

\* old is the tail of new
IsSuffixOf(old, new) ==
    /\ Len(new) >= Len(old)
    /\ SubSeq(new, Len(new) - Len(old) + 1, Len(new)) = old

\* the history entry of the run that produced certificates[k], if the list
\* is newest first
Origin(k) == completed[Len(completed) - k + 1]

\* the step completes a run
CompletionStep == Len(completed') = Len(completed) + 1

\* C1: after a successful run, once no run is live, the busy flag is false.
C1_BusyFalseAfterRun ==
    (completed # <<>> /\ runs = {}) => isProcessing = FALSE

\* C2: a step that completes a run makes the record list exactly one longer
\* and leaves selectedFile absent; every other step leaves the length of the
\* list as it was.
C2_OneRecordPerRun ==
    [][IF CompletionStep
       THEN /\ Len(certificates') = Len(certificates) + 1
            /\ selectedFile' = NoFile
       ELSE Len(certificates') = Len(certificates)]_vars

\* a run has just completed although a file accepted while it was in
\* progress had replaced the selection: a later run holds a different file
C2_Witness ==
    /\ toast = ToastSuccess
    /\ selectedFile = NoFile
    /\ Len(certificates) = 1
    /\ \E r \in runs : /\ r.id > completed[1].run
                       /\ r.file # completed[1].file

\* C3: handleFileUpload(f) selects f and emits the success notification if
\* f is present and its name ends with ".p12"; otherwise it emits the
\* destructive notification and selects nothing.
C3_AcceptIffSuffix ==
    [][\A f \in FirstFile :
         handleFileUpload(f) =>
            IF f # NoFile /\ HasP12Suffix(f.name)
            THEN /\ selectedFile' = f
                 /\ toast' = ToastUploaded(f)
                 /\ toast'.variant = "default"
            ELSE /\ selectedFile' = selectedFile
                 /\ f # NoFile => selectedFile' # f
                 /\ toast' = ToastInvalidFormat
                 /\ toast'.variant = "destructive"]_vars

\* the file whose name holds ".p12" twice has been accepted
C3_Witness ==
    /\ toast = ToastUploaded(File(NameDup, 2))
    /\ selectedFile = File(NameDup, 2)
    /\ inputValue = InputValue(File(NameDup, 2))

\* C4: a rejected handleFileUpload leaves selectedFile, the record list, the
\* busy flag, the runs and the exports as they were and emits the
\* destructive notification.
C4_RejectKeepsSelection ==
    [][\A f \in FirstFile :
         (handleFileUpload(f) /\ ~(f # NoFile /\ HasP12Suffix(f.name))) =>
            /\ UNCHANGED <<selectedFile, certificates, isProcessing, runs,
                           timers, started, urls, anchors>>
            /\ toast' = ToastInvalidFormat
            /\ saved' = NoSave]_vars

\* a file has been rejected while an accepted one is selected
C4_Witness ==
    /\ toast = ToastInvalidFormat
    /\ selectedFile # NoFile
    /\ inputValue # ""

\* C5: simulateUnrevoke with no selectedFile emits the missing-file
\* notification and changes nothing else: no run is started.
C5_StartWithoutFile ==
    [][(selectedFile = NoFile /\ simulateUnrevoke) =>
            /\ toast' = ToastMissingFile
            /\ UNCHANGED <<certificates, selectedFile, isProcessing, runs,
                           timers, started, inputValue, urls, anchors>>
            /\ saved' = NoSave]_vars

\* simulateUnrevoke has been called with no file selected, before any run
C5_Witness ==
    /\ toast = ToastMissingFile
    /\ selectedFile = NoFile
    /\ runs = {}
    /\ isProcessing = FALSE

\* C6: every step keeps the previous record list as the tail of the new
\* one, and the list holds the records of the completed runs in reverse
\* order of completion.
C6_PrependOnlyNewestFirst ==
    /\ [][IsSuffixOf(certificates, certificates')]_vars
    /\ [](/\ Len(certificates) = Len(completed)
          /\ \A k \in 1..Len(certificates) : certificates[k] = Origin(k).rec)

\* two runs have completed with different records: [R2, R1]
C6_Witness ==
    /\ Len(certificates) = 2
    /\ certificates[1] # certificates[2]
    /\ certificates[1] = completed[2].rec
    /\ certificates[2] = completed[1].rec

\* C7 as stated: at most one run is live at any time.
C7_SingleFlight == Cardinality(runs) <= 1

\* C7, amended: while a run is live the run trigger is disabled.
C7_TriggerDisabledWhileRunning == runs # {} => RunTriggerDisabled

\* a run is live and a file is selected: only the busy flag disables the
\* trigger
C7_Witness ==
    /\ Cardinality(runs) = 1
    /\ selectedFile # NoFile
    /\ isProcessing

\* C8: handleDownload of a record whose file is present saves the bytes of
\* the file its run was started with.
C8_DownloadRoundTrip ==
    [][\A k \in 1..Len(certificates) :
         (/\ certificates[k].file # NoFile
          /\ handleDownload(certificates[k].file, certificates[k].name)) =>
            /\ saved'.bytes = Origin(k).file.bytes
            /\ \E u \in urls' : u.id = saved'.href /\ u.blob = Origin(k).file
      ]_vars

\* a record has been downloaded while the list holds the records of two
\* different files
C8_Witness ==
    /\ saved # NoSave
    /\ Len(certificates) = 2
    /\ certificates[1].file # certificates[2].file
    /\ saved.bytes = certificates[2].file.bytes

\* C9: handleDownload without a usable file emits the download-failed
\* notification, creates no object URL or anchor, triggers no save and
\* leaves the record list, selectedFile and the busy flag as they were.
C9_DownloadWithoutHandle ==
    [][\A args \in DownloadArgs :
         (/\ args[1] \in {NoFile, NotBlob}
          /\ handleDownload(args[1], args[2])) =>
            /\ toast' = ToastDownloadFailed
            /\ saved' = NoSave
            /\ UNCHANGED <<urls, anchors, timers, certificates,
                           selectedFile, isProcessing, runs>>]_vars

\* a download without a file has failed while the list holds a record
C9_Witness ==
    /\ toast = ToastDownloadFailed
    /\ certificates # <<>>
    /\ urls = {}
    /\ saved = NoSave

\* C10: the display name of every record is the name of its file without
\* its last four characters, the ".p12" suffix.
C10_DisplayNameStripsSuffix ==
    \A k \in 1..Len(completed) :
        LET n == completed[k].file.name
        IN  completed[k].rec.name = SubSeq(n, 1, Len(n) - Len(P12))

\* C11: every export of a stored record is saved under the name of the file
\* the record was made from: stripping the suffix for the display name and
\* appending it again for the download gives back the accepted name.
C11_NameRoundTrip ==
    saved # NoSave =>
        \E k \in 1..Len(completed) :
            /\ completed[k].file.bytes = saved.bytes
            /\ completed[k].file.name = saved.name

\* C12: every stored record is active, carries the placeholder bundle
\* identifier, one of the two classes and the file it was made from, so
\* that its download button is enabled and handleDownload of its file does
\* not take the "Download failed" branch.
C12_RecordsWellFormed ==
    \A k \in 1..Len(certificates) :
        LET cert == certificates[k]
        IN  /\ cert.status = "active"
            /\ cert.status \notin {"processing", "revoked"}
            /\ cert.bundleId = "com.example.app"
            /\ cert.type \in {"development", "distribution"}
            /\ cert.file # NoFile
            /\ cert.file.kind = "File"
            /\ ~DownloadDisabled(cert)
            /\ ~(cert.file = NoFile \/ ~IsBlob(cert.file))

\* two records of the two classes are stored, made from different files
C12_Witness ==
    /\ Len(certificates) = 2
    /\ certificates[1].type = "development"
    /\ certificates[2].type = "distribution"
    /\ certificates[1].file # certificates[2].file

\* C13: after a completed run, when no run is live and a valid file is
\* selected, the run button is enabled.
C13_TriggerEnabledAfterRun ==
    (completed # <<>> /\ runs = {} /\ selectedFile # NoFile) =>
        ~RunTriggerDisabled

\* the pending delays of the run with this id
StageTimersOf(id) == {k \in 1..Len(timers) : timers[k].run = id}

\* while a run is live the busy flag is true, exactly one of its delays is
\* pending, it is at one of the five steps and the list holds no record of
\* it: the list holds one record per run that is no longer live
C14_WhileRunning ==
    /\ \A r \in runs :
          /\ isProcessing
          /\ r.i \in 0..4
          /\ Cardinality(StageTimersOf(r.id)) = 1
          /\ \A k \in 1..Len(completed) : completed[k].run # r.id
    /\ \A k \in 1..Len(timers) :
          timers[k].run # 0 => \E r \in runs : r.id = timers[k].run
    /\ Len(certificates) = started - Cardinality(runs)

\* a run begins at the first step with the busy flag true; in one step it
\* stays, or moves to the next step with the list and the selection as they
\* were, or, from the fifth step only, ends with its record prepended and
\* the selection cleared; the list changes in no other step
C14_OneStageAtATime ==
    /\ \A r \in runs' :
          (\A q \in runs : q.id # r.id) =>
              /\ r.i = 0
              /\ isProcessing'
              /\ certificates' = certificates
    /\ \A r \in runs :
          \/ r \in runs'
          \/ \E q \in runs' : /\ q.id = r.id
                              /\ q.i = r.i + 1
                              /\ q.file = r.file
                              /\ certificates' = certificates
                              /\ selectedFile' = selectedFile
          \/ /\ \A q \in runs' : q.id # r.id
             /\ r.i = 4
             /\ Len(certificates') = Len(certificates) + 1
             /\ SubSeq(certificates', 2, Len(certificates')) = certificates
             /\ certificates'[1].file = r.file
             /\ selectedFile' = NoFile
    /\ certificates' # certificates =>
          \E r \in runs : r.i = 4 /\ \A q \in runs' : q.id # r.id

\* C14: within a run the busy flag is set before the first delay, the five
\* delays elapse one after another (never two pending for one run), and the
\* record is created, the list updated and the selection cleared only when
\* the fifth delay has fired; before that the list holds no record of the
\* run.
C14_StagesInOrder == []C14_WhileRunning /\ [][C14_OneStageAtATime]_vars

\* a run waits for its fifth delay after four have fired, with a file
\* selected and the record of an earlier run in the list
C14_Witness ==
    /\ \E r \in runs : r.i = 4 /\ StageTimersOf(r.id) # {}
    /\ isProcessing
    /\ selectedFile # NoFile
    /\ Len(certificates) = 1

\* a live run leaves the set of runs only by completing
C15_NoAbort ==
    \A r \in runs :
        \/ \E q \in runs' : q.id = r.id /\ q.file = r.file /\ q.i >= r.i
        \/ \E k \in 1..Len(completed') : completed'[k].run = r.id

\* C15: every run that has started eventually completes by creating its
\* record, whatever other handlers are invoked meanwhile, provided pending
\* timers eventually fire.
C15_RunCompletes ==
    /\ [][C15_NoAbort]_vars
    /\ \A id \in 1..MaxRuns :
          (\E r \in runs : r.id = id)
              ~> (\E k \in 1..Len(completed) :
                     /\ completed[k].run = id
                     /\ \E j \in 1..Len(certificates) :
                           certificates[j] = completed[k].rec)

\* the second run has just completed while an export awaited its release
C15_Witness ==
    /\ toast = ToastSuccess
    /\ Len(completed) = 2
    /\ anchors # {}
    /\ runs = {}

\* C16: no two records of the list have the same id, also when two runs
\* complete at the same reading of the clock.
C16_UniqueIds ==
    \A j, k \in 1..Len(certificates) :
        j # k => certificates[j].id # certificates[k].id

\* the object URLs that release timers are pending for
ReleaseHrefs == {timers[k].href : k \in {j \in 1..Len(timers) : timers[j].href # 0}}

\* every live object URL has its own id, its own anchor and exactly one
\* pending release timer, and nothing else is live or pending; the save of
\* the latest export refers to a live object URL of the exported file
C17_OwnReference ==
    /\ {u.id : u \in urls} = {a.href : a \in anchors}
    /\ {u.id : u \in urls} = ReleaseHrefs
    /\ Cardinality(urls) = Cardinality(ReleaseHrefs)
    /\ Cardinality(anchors) = Cardinality(ReleaseHrefs)
    /\ Cardinality({k \in 1..Len(timers) : timers[k].href # 0})
          = Cardinality(ReleaseHrefs)
    /\ saved # NoSave =>
          \E u \in urls : u.id = saved.href /\ u.blob.bytes = saved.bytes
    /\ ReleaseHrefs = {} => urls = {} /\ anchors = {}

\* a step that saves creates exactly one object URL and keeps the others; a
\* step that ends an object URL ends exactly one, is a timer step and saves
\* nothing
C17_CreateAndRelease ==
    /\ saved' # NoSave =>
          /\ urls \subseteq urls'
          /\ Cardinality(urls') = Cardinality(urls) + 1
          /\ Len(timers') = Len(timers) + 1
          /\ timers'[Len(timers')].href = saved'.href
          /\ timers'[Len(timers')].ms = 100
    /\ ~(urls \subseteq urls') =>
          /\ urls' \subseteq urls
          /\ Cardinality(urls') = Cardinality(urls) - 1
          /\ Len(timers') = Len(timers) - 1
          /\ saved' = NoSave

\* C17: every successful handleDownload creates one object URL of its own
\* and triggers the save while it is live; the URL is revoked once, by its
\* own release timer, and eventually; overlapping exports each have their
\* own URL and timer, and with no release timer pending no URL is live.
C17_ReferenceReleased ==
    /\ []C17_OwnReference
    /\ [][C17_CreateAndRelease]_vars
    /\ \A h \in 1..MaxDownloads :
          (\E u \in urls : u.id = h) ~> (\A u \in urls : u.id # h)

\* a second export has just saved while the object URL of the first is
\* still live
C17_Witness ==
    /\ saved # NoSave
    /\ saved.href = 2
    /\ Cardinality(urls) = 2
    /\ Cardinality(anchors) = 2

\* C18: a handleFileUpload that accepts its file makes it the selection and
\* leaves the record list, the busy flag, the suspended runs with their step
\* and file, their timers and the exports as they were, whether or not a
\* run is live.
C18_AcceptOnlySelects ==
    [][\A f \in FirstFile :
         (handleFileUpload(f) /\ f # NoFile /\ HasP12Suffix(f.name)) =>
            /\ selectedFile' = f
            /\ UNCHANGED <<certificates, isProcessing, runs, timers,
                           started, now, urls, anchors, completed>>]_vars

\* a file has just been accepted while a run made from another file is past
\* its first delay
C18_Witness ==
    /\ toast = ToastUploaded(File(NameA, 1))
    /\ selectedFile = File(NameA, 1)
    /\ isProcessing
    /\ \E r \in runs : r.i > 0 /\ r.file = File(NameDup, 2)

\* a run begins with the file selected at that moment, keeps it while it is
\* live, and its record carries that file and the display name made from it
C19_StartTimeFile ==
    /\ \A r \in runs' :
          (\A q \in runs : q.id # r.id) => r.file = selectedFile
    /\ \A r \in runs :
          \/ \E q \in runs' : q.id = r.id /\ q.file = r.file
          \/ /\ CompletionStep
             /\ Len(certificates') = Len(certificates) + 1
             /\ certificates'[1].file = r.file
             /\ certificates'[1].name = replace(r.file.name, P12, <<>>)
             /\ completed'[Len(completed')].file = r.file

\* C19: the record created at completion carries the retained file and the
\* display name of the file that was selected when simulateUnrevoke was
\* invoked, also when another valid file has been accepted since.
C19_RecordOfStartFile == [][C19_StartTimeFile]_vars

\* the run started with a.p12 has completed with the record "a" although
\* .p12a.p12 was accepted while it was in progress and started the next run
C19_Witness ==
    /\ toast = ToastSuccess
    /\ Len(certificates) = 1
    /\ certificates[1].name = <<"a">>
    /\ certificates[1].file = File(NameA, 1)
    /\ \E r \in runs : r.id = 2 /\ r.file = File(NameDup, 2)

====
